---- MODULE Spec2Model ----
(***************************************************************************)
(* A model of the perspective-mapping math core of OpenVisionMatrix:       *)
(* the quad validator, the rect-to-quad homography solver, the point       *)
(* projector and the CSS matrix3d embedder, together with the one caller   *)
(* in the editor that consumes the solver (SurfaceLayer), and of the quad  *)
(* utilities of the core package (getQuadCenter, scaleQuad and             *)
(* computeFullscreenQuad).                                                 *)
(*                                                                         *)
(* The functions are pure.  Every specification draws the arguments of a   *)
(* call in its initial state and has one action per function, which        *)
(* stores what the call returns (or the error it throws) in `result`.      *)
(*                                                                         *)
(* Numbers.  The source computes in IEEE double precision.  The model      *)
(* has numbers (n / d) * 10^e with integers n, d, e: the decimal exponent  *)
(* makes the tolerances 1e-6 and 1e-12 and their neighbourhood             *)
(* representable in 32-bit integers.  It computes in two ways.             *)
(*                                                                         *)
(*   - Exactly (RAdd, RSub, RMul, RDiv): the validator, the projector,     *)
(*     the embedder and the solver of SpecHomography.  This is what the    *)
(*     algorithms compute when no operation rounds.                        *)
(*                                                                         *)
(*   - Rounded (FAdd, FSub, FMul, FDiv): every operation returns the       *)
(*     exact result rounded to the nearest number with a significand of    *)
(*     Precision bits, ties to even, as a double does with 53 bits.  The   *)
(*     quad utilities and the solver of SpecHomographyRounded compute      *)
(*     this way.  A rounded operation of the model errs by 2^-Precision    *)
(*     of its result where a double errs by 2^-53: what rounding does to   *)
(*     an equation or to a tolerance shows on plainer arguments in the     *)
(*     model than in the source.                                           *)
(***************************************************************************)
EXTENDS Integers, Sequences, FiniteSets, TLC

VARIABLES pc, op, quad, epsilon, width, height, isProd, H, p, result,
          rect, scaleX, scaleY, origin,
          stageWidth, stageHeight, contentWidth, contentHeight, fit, align

\* the arguments of the quad utilities (getQuadCenter, scaleQuad and
\* computeFullscreenQuad): the calls of the math core leave them alone
layoutArgs == <<rect, scaleX, scaleY, origin,
                stageWidth, stageHeight, contentWidth, contentHeight, fit, align>>

vars == <<pc, op, quad, epsilon, width, height, isProd, H, p, result, layoutArgs>>

----------------------------------------------------------------------------
(* Bounds of the model *)

\* quad corners are drawn from the grid (0..MaxCoord) x (0..MaxCoord)
MaxCoord == 2

\* widths and heights are drawn from -1..MaxDim
MaxDim == 2

\* the entries of the two upper rows of a matrix are drawn from 0..MaxEntry
MaxEntry == 1

\* projected points are drawn from (0..MaxProbe) x (0..MaxProbe)
MaxProbe == 1

\* the bits of the significand of a rounded number
Precision == 11

----------------------------------------------------------------------------
(* Numbers: (n / d) * 10^e, gcd(n, d) = 1, d > 0; d = 0 marks a non-finite *)
(* value (the result of a division by zero).                               *)

IAbs(i) == IF i < 0 THEN -i ELSE i

Sgn(i) == IF i < 0 THEN -1 ELSE IF i > 0 THEN 1 ELSE 0

RECURSIVE GCD(_, _)
GCD(a, b) == IF b = 0 THEN a ELSE GCD(b, a % b)

RECURSIVE Pow10(_)
Pow10(k) == IF k = 0 THEN 1 ELSE 10 * Pow10(k - 1)

Zero == [n |-> 0, d |-> 1, e |-> 0]

Norm(n, d, e) ==
  IF n = 0 THEN Zero
  ELSE LET g == GCD(IAbs(n), IAbs(d))
           s == IF d < 0 THEN -1 ELSE 1
       IN  [n |-> s * (n \div g), d |-> s * (d \div g), e |-> e]

RInt(i) == [n |-> i, d |-> 1, e |-> 0]

RNeg(a) == [n |-> -a.n, d |-> a.d, e |-> a.e]

RAbs(a) == [n |-> IAbs(a.n), d |-> a.d, e |-> a.e]

RAdd(a, b) ==
  IF a.n = 0 THEN b
  ELSE IF b.n = 0 THEN a
  ELSE IF a.e = b.e
       THEN IF a.d = 1 /\ b.d = 1
            THEN (IF a.n + b.n = 0 THEN Zero ELSE [n |-> a.n + b.n, d |-> 1, e |-> a.e])
            ELSE Norm(a.n * b.d + b.n * a.d, a.d * b.d, a.e)
  ELSE IF a.e > b.e
       THEN Norm(a.n * Pow10(a.e - b.e) * b.d + b.n * a.d, a.d * b.d, b.e)
       ELSE Norm(a.n * b.d + b.n * Pow10(b.e - a.e) * a.d, a.d * b.d, a.e)

RSub(a, b) == RAdd(a, RNeg(b))

RMul(a, b) ==
  IF a.n = 0 \/ b.n = 0 THEN Zero
  ELSE IF a.d = 1 /\ b.d = 1 THEN [n |-> a.n * b.n, d |-> 1, e |-> a.e + b.e]
  ELSE Norm(a.n * b.n, a.d * b.d, a.e + b.e)

RDiv(a, b) ==
  IF b.n = 0 THEN [n |-> Sgn(a.n), d |-> 0, e |-> 0]
  ELSE Norm(a.n * b.d, a.d * b.n, a.e - b.e)

\* X * 10^k against Y for integers X, Y > 0 and k > 0, without overflow:
\* every Y of the model is below 2^31 < 10^10
ScaledCmp(X, k, Y) ==
  IF k >= 10 THEN 1
  ELSE LET P == Pow10(k)
           q == Y \div P
       IN  IF X > q THEN 1
           ELSE IF X < q THEN -1
           ELSE IF Y % P = 0 THEN 0 ELSE -1

IntCmp(X, Y) == IF X < Y THEN -1 ELSE IF X > Y THEN 1 ELSE 0

\* -1, 0, 1 as a < b, a = b, a > b
Cmp(a, b) ==
  IF a.e = b.e THEN IntCmp(a.n * b.d, b.n * a.d)
  ELSE LET sa == Sgn(a.n)
           sb == Sgn(b.n)
       IN  IF sa # sb THEN IntCmp(sa, sb)
           ELSE LET X == IAbs(a.n) * b.d
                    Y == IAbs(b.n) * a.d
                    k == a.e - b.e
                IN  sa * (IF k > 0 THEN ScaledCmp(X, k, Y) ELSE -ScaledCmp(Y, -k, X))

REq(a, b) == Cmp(a, b) = 0
RLt(a, b) == Cmp(a, b) < 0
RLe(a, b) == Cmp(a, b) <= 0
RGt(a, b) == Cmp(a, b) > 0
RGe(a, b) == Cmp(a, b) >= 0

----------------------------------------------------------------------------
(* Floating point.  The quad utilities are modelled with rounding: every   *)
(* operation returns the exact result rounded to the nearest number with a *)
(* significand of Precision bits, ties to even, as IEEE 754 does with 53   *)
(* bits.  The exponent is unbounded (no overflow, no underflow) and zero   *)
(* has no sign.  A float is a number with e = 0; d = 0 marks a non-finite  *)
(* value: NaN (n = 0) or an infinity (n = 1, n = -1).                      *)

RECURSIVE Pow2(_)
Pow2(k) == IF k = 0 THEN 1 ELSE 2 * Pow2(k - 1)

\* the significands of the floats are SignificandLow .. SignificandHigh - 1
SignificandLow == Pow2(Precision - 1)
SignificandHigh == Pow2(Precision)

NaN == [n |-> 0, d |-> 0, e |-> 0]

IsFinite(a) == a.d # 0

IsNaN(a) == a.d = 0 /\ a.n = 0

\* q / 2^k with remainder r / (b * 2^k): binary digits are produced until
\* the significand q has Precision bits or the value is exact
RECURSIVE Extend(_, _, _, _)
Extend(q, r, b, k) ==
  IF r = 0 \/ q >= SignificandLow THEN [q |-> q, r |-> r, k |-> k]
  ELSE Extend(2 * q + (IF 2 * r >= b THEN 1 ELSE 0), (2 * r) % b, b, k + 1)

\* the least k with i < 2^(Precision + k)
RECURSIVE Excess(_, _)
Excess(i, k) == IF i \div Pow2(k) < SignificandHigh THEN k ELSE Excess(i, k + 1)

\* round to nearest, ties to even: q with a remainder of half / whole
RoundEven(q, twice, whole) ==
  IF twice > whole \/ (twice = whole /\ q % 2 = 1) THEN q + 1 ELSE q

\* the float nearest to the number r
Fl(r) ==
  IF r.d = 0 \/ r.n = 0 THEN r
  ELSE LET a == IAbs(r.n)
           b == r.d
           i == a \div b
           rem == a % b
       IN  IF i >= SignificandHigh
           THEN LET k == Excess(i, 0)
                    unit == Pow2(k)
                IN  RInt(Sgn(r.n) * unit
                           * RoundEven(i \div unit, 2 * ((i % unit) * b + rem), unit * b))
           ELSE LET x == Extend(i, rem, b, 0)
                IN  Norm(Sgn(r.n) * RoundEven(x.q, 2 * x.r, b), Pow2(x.k), 0)

\* the exact sum of two floats, over the least common denominator
ExactAdd(a, b) ==
  IF a.n = 0 THEN b
  ELSE IF b.n = 0 THEN a
  ELSE Norm(a.n * (b.d \div GCD(a.d, b.d)) + b.n * (a.d \div GCD(a.d, b.d)),
            (a.d \div GCD(a.d, b.d)) * b.d, 0)

\* a + b, a - b, a * b and a / b of the source
FAdd(a, b) ==
  IF IsFinite(a) /\ IsFinite(b) THEN Fl(ExactAdd(a, b))
  ELSE IF IsNaN(a) \/ IsNaN(b) THEN NaN
  ELSE IF IsFinite(b) THEN a
  ELSE IF IsFinite(a) \/ a.n = b.n THEN b
  ELSE NaN

FSub(a, b) == FAdd(a, RNeg(b))

FMul(a, b) ==
  IF IsFinite(a) /\ IsFinite(b) THEN Fl(RMul(a, b))
  ELSE IF IsNaN(a) \/ IsNaN(b) \/ a.n = 0 \/ b.n = 0 THEN NaN
  ELSE [n |-> Sgn(a.n) * Sgn(b.n), d |-> 0, e |-> 0]

FDiv(a, b) ==
  IF IsFinite(a) /\ IsFinite(b) THEN (IF b.n = 0 THEN RDiv(a, b) ELSE Fl(RDiv(a, b)))
  ELSE IF IsNaN(a) \/ IsNaN(b) \/ (~IsFinite(a) /\ ~IsFinite(b)) THEN NaN
  ELSE IF IsFinite(a) THEN Zero
  ELSE [n |-> a.n * (IF b.n < 0 THEN -1 ELSE 1), d |-> 0, e |-> 0]

\* a > b of the source: false when an operand is NaN
FGt(a, b) ==
  IF IsNaN(a) \/ IsNaN(b) THEN FALSE
  ELSE IF IsFinite(a) /\ IsFinite(b) THEN RGt(a, b)
  ELSE IF IsFinite(a) THEN b.n < 0
  ELSE IF IsFinite(b) THEN a.n > 0
  ELSE a.n > b.n

\* Math.min and Math.max: NaN when an operand is NaN
MathMin(a, b) ==
  IF IsNaN(a) \/ IsNaN(b) THEN NaN ELSE IF FGt(a, b) THEN b ELSE a

MathMax(a, b) ==
  IF IsNaN(a) \/ IsNaN(b) THEN NaN ELSE IF FGt(b, a) THEN b ELSE a

----------------------------------------------------------------------------
(* validate.ts *)

DEFAULT_EPSILON == [n |-> 1, d |-> 1, e |-> -6]

Point(x, y) == [x |-> x, y |-> y]

\* quad[i] of the source is q[i + 1] here
Next4(i) == (i % 4) + 1

RECURSIVE ShoelaceSum(_, _)
ShoelaceSum(q, i) ==
  IF i > 4 THEN Zero
  ELSE RAdd(RSub(RMul(q[i].x, q[Next4(i)].y), RMul(q[Next4(i)].x, q[i].y)),
            ShoelaceSum(q, i + 1))

\* mutant: the unsigned area
quadArea_Unsigned(q) == RDiv(RAbs(ShoelaceSum(q, 1)), RInt(2))

quadArea(q) == RDiv(ShoelaceSum(q, 1), RInt(2))

\* mutant: the orientation test is that of y-up coordinates
isClockwiseQuad_YUp(q) == RLt(quadArea(q), Zero)

isClockwiseQuad(q) == RGt(quadArea(q), Zero)

pointsEqual(a, b) == REq(a.x, b.x) /\ REq(a.y, b.y)

cross(a, b, c) ==
  LET abx == RSub(b.x, a.x)
      aby == RSub(b.y, a.y)
      acx == RSub(c.x, a.x)
      acy == RSub(c.y, a.y)
  IN  RSub(RMul(abx, acy), RMul(aby, acx))

hasDuplicatePoints(q) ==
  \E i \in 1..4 : \E j \in (i + 1)..4 : pointsEqual(q[i], q[j])

triplets == {<<1, 2, 3>>, <<1, 2, 4>>, <<1, 3, 4>>, <<2, 3, 4>>}

\* mutant: a cross product equal to the tolerance passes
hasCollinearTriplet_Strict(q, eps) ==
  \E t \in triplets : RLt(RAbs(cross(q[t[1]], q[t[2]], q[t[3]])), eps)

hasCollinearTriplet(q, eps) ==
  \E t \in triplets : RLe(RAbs(cross(q[t[1]], q[t[2]], q[t[3]])), eps)

segmentsIntersect(a, b, c, d, eps) ==
  LET ab  == cross(a, b, c)
      ab2 == cross(a, b, d)
      cd  == cross(c, d, a)
      cd2 == cross(c, d, b)
      neg == RNeg(eps)
  IN  IF RLe(RAbs(ab), eps) /\ RLe(RAbs(ab2), eps)
         /\ RLe(RAbs(cd), eps) /\ RLe(RAbs(cd2), eps)
      THEN FALSE
      ELSE IF (RGt(ab, eps) /\ RLt(ab2, neg)) \/ (RLt(ab, neg) /\ RGt(ab2, eps))
           THEN (RGt(cd, eps) /\ RLt(cd2, neg)) \/ (RLt(cd, neg) /\ RGt(cd2, eps))
           ELSE FALSE

\* mutant: only the first pair of opposite edges is tested
isSelfIntersecting_FirstPair(q, eps) ==
  segmentsIntersect(q[1], q[2], q[3], q[4], eps)

isSelfIntersecting(q, eps) ==
  \/ segmentsIntersect(q[1], q[2], q[3], q[4], eps)
  \/ segmentsIntersect(q[2], q[3], q[4], q[1], eps)

ReasonDuplicate == "Quad contains duplicate points."
ReasonCollinear == "Quad has collinear points."
ReasonArea == "Quad area is too small."
ReasonClockwise == "Quad must be clockwise."
ReasonSelfIntersecting == "Quad is self-intersecting."

Ok == [ok |-> TRUE]
Rejected(reason) == [ok |-> FALSE, reason |-> reason]

\* mutant: the self-intersection check runs before the area check
validateQuad_SelfIntersectionFirst(q, eps) ==
  IF hasDuplicatePoints(q) THEN Rejected(ReasonDuplicate)
  ELSE IF hasCollinearTriplet(q, eps) THEN Rejected(ReasonCollinear)
  ELSE IF isSelfIntersecting(q, eps) THEN Rejected(ReasonSelfIntersecting)
  ELSE IF RLe(RAbs(quadArea(q)), eps) THEN Rejected(ReasonArea)
  ELSE IF ~isClockwiseQuad(q) THEN Rejected(ReasonClockwise)
  ELSE Ok

validateQuad(q, eps) ==
  IF hasDuplicatePoints(q) THEN Rejected(ReasonDuplicate)
  ELSE IF hasCollinearTriplet(q, eps) THEN Rejected(ReasonCollinear)
  ELSE IF RLe(RAbs(quadArea(q)), eps) THEN Rejected(ReasonArea)
  ELSE IF ~isClockwiseQuad(q) THEN Rejected(ReasonClockwise)
  ELSE IF isSelfIntersecting(q, eps) THEN Rejected(ReasonSelfIntersecting)
  ELSE Ok

----------------------------------------------------------------------------
(* homography.ts *)

W_EPSILON == [n |-> 1, d |-> 1, e |-> -12]

ErrSingular == "Homography system is singular."
ErrSanity == "Homography sanity check failed."
ErrDimensions == "Width and height must be positive."
ErrInvalidQuadPrefix == "Invalid quad: "
ErrDegenerate == "Homography w is ~0 (degenerate transform)"

Return(v) == [ok |-> TRUE, value |-> v]
Throw(msg) == [ok |-> FALSE, error |-> msg]

\* mutant: no pivoting, the diagonal entry is the pivot
PivotSearch_Diagonal(A, i, r, pivotRow) == pivotRow

\* the pivot search of column i: rows r..n against the best row so far
RECURSIVE PivotSearch(_, _, _, _)
PivotSearch(A, i, r, pivotRow) ==
  IF r > Len(A) THEN pivotRow
  ELSE IF RGt(RAbs(A[r][i]), RAbs(A[pivotRow][i]))
       THEN PivotSearch(A, i, r + 1, r)
       ELSE PivotSearch(A, i, r + 1, pivotRow)

\* an array of the solver: the sequence of its entries' values
Array(f) == f \o <<>>

SwapIndex(i, j, r) == IF r = i THEN j ELSE IF r = j THEN i ELSE r

\* X (the eight rows of A, or the eight entries of b) with entries i and j swapped
Swap(X, i, j) == Array([r \in 1..Len(X) |-> X[SwapIndex(i, j, r)]])

\* row i divided by the pivot, from column i on
ScaleEntry(row, i, c) == IF c >= i THEN RDiv(row[c], row[i]) ELSE row[c]

ScaleRow(row, i) == Array([c \in 1..Len(row) |-> ScaleEntry(row, i, c)])

\* row r minus factor times the scaled pivot row, from column i on
EliminateEntry(row, pivotRowScaled, i, c) ==
  IF c >= i THEN RSub(row[c], RMul(row[i], pivotRowScaled[c])) ELSE row[c]

EliminateRow(row, pivotRowScaled, i) ==
  IF row[i].n = 0 THEN row
  ELSE Array([c \in 1..Len(row) |-> EliminateEntry(row, pivotRowScaled, i, c)])

\* row r of A and entry r of b after the step of column i
StepRow(A, rowI, i, r) == IF r = i THEN rowI ELSE EliminateRow(A[r], rowI, i)

StepB(A, b, bI, i, r) ==
  IF r = i THEN bI
  ELSE IF A[r][i].n = 0 THEN b[r]
  ELSE RSub(b[r], RMul(A[r][i], bI))

RECURSIVE GaussJordan(_, _, _)
GaussJordan(A, b, i) ==
  IF i > Len(A) THEN Return(b)
  ELSE LET pivotRow == PivotSearch(A, i, i + 1, i)
       IN  IF A[pivotRow][i].n = 0 THEN Throw(ErrSingular)
           ELSE LET As == Swap(A, i, pivotRow)
                    bs == Swap(b, i, pivotRow)
                    rowI == ScaleRow(As[i], i)
                    bI == RDiv(bs[i], As[i][i])
                    An == Array([r \in 1..Len(As) |-> StepRow(As, rowI, i, r)])
                    bn == Array([r \in 1..Len(bs) |-> StepB(As, bs, bI, i, r)])
                IN  GaussJordan(An, bn, i + 1)

\* A has the 8 rows of 8 entries and b the 8 entries that
\* computeHomographyRectToQuad builds
solveLinearSystem(A, b) == GaussJordan(A, b, 1)

\* mutant: a w' equal to the threshold fails too
applyHomography_Inclusive(M, pt) ==
  LET x == pt.x
      y == pt.y
      xPrime == RAdd(RAdd(RMul(M[1], x), RMul(M[2], y)), M[3])
      yPrime == RAdd(RAdd(RMul(M[4], x), RMul(M[5], y)), M[6])
      wPrime == RAdd(RAdd(RMul(M[7], x), RMul(M[8], y)), M[9])
  IN  IF RLe(RAbs(wPrime), W_EPSILON) THEN Throw(ErrDegenerate)
      ELSE Return(Point(RDiv(xPrime, wPrime), RDiv(yPrime, wPrime)))

applyHomography(M, pt) ==
  LET x == pt.x
      y == pt.y
      xPrime == RAdd(RAdd(RMul(M[1], x), RMul(M[2], y)), M[3])
      yPrime == RAdd(RAdd(RMul(M[4], x), RMul(M[5], y)), M[6])
      wPrime == RAdd(RAdd(RMul(M[7], x), RMul(M[8], y)), M[9])
  IN  IF RLt(RAbs(wPrime), W_EPSILON) THEN Throw(ErrDegenerate)
      ELSE Return(Point(RDiv(xPrime, wPrime), RDiv(yPrime, wPrime)))

\* the canonical corners of the source rectangle
RectCorners(w, h) == <<Point(Zero, Zero), Point(w, Zero), Point(w, h), Point(Zero, h)>>

\* the first corner from i on that fails the check: an error of applyHomography
\* propagates, a corner off its target by more than the tolerance throws
RECURSIVE SanityFrom(_, _, _, _, _)
SanityFrom(w, h, q, M, i) ==
  IF i > 4 THEN Return(TRUE)
  ELSE LET mapped == applyHomography(M, RectCorners(w, h)[i])
       IN  IF ~mapped.ok THEN mapped
           ELSE LET dx == RSub(mapped.value.x, q[i].x)
                    dy == RSub(mapped.value.y, q[i].y)
                IN  IF RGt(RAbs(dx), DEFAULT_EPSILON) \/ RGt(RAbs(dy), DEFAULT_EPSILON)
                    THEN Throw(ErrSanity)
                    ELSE SanityFrom(w, h, q, M, i + 1)

sanityCheckRectToQuad(w, h, q, M) == SanityFrom(w, h, q, M, 1)

\* the two equations of correspondence src[i] -> quad[i]
EquationX(s, t) ==
  <<s.x, s.y, RInt(1), Zero, Zero, Zero, RMul(RNeg(t.x), s.x), RMul(RNeg(t.x), s.y)>>
EquationY(s, t) ==
  <<Zero, Zero, Zero, s.x, s.y, RInt(1), RMul(RNeg(t.y), s.x), RMul(RNeg(t.y), s.y)>>

SystemA(w, h, q) ==
  LET src == RectCorners(w, h)
  IN  <<EquationX(src[1], q[1]), EquationY(src[1], q[1]),
        EquationX(src[2], q[2]), EquationY(src[2], q[2]),
        EquationX(src[3], q[3]), EquationY(src[3], q[3]),
        EquationX(src[4], q[4]), EquationY(src[4], q[4])>>

SystemB(q) ==
  <<q[1].x, q[1].y, q[2].x, q[2].y, q[3].x, q[3].y, q[4].x, q[4].y>>

\* mutant: the solved unknowns are laid out column by column
SolveRectToQuad_ColumnMajor(w, h, q, prod) ==
  LET sol == solveLinearSystem(SystemA(w, h, q), SystemB(q))
  IN  IF ~sol.ok THEN sol
      ELSE LET hv == sol.value
               M == <<hv[1], hv[4], hv[7], hv[2], hv[5], hv[8],
                      hv[3], hv[6], RInt(1)>>
               check == IF prod THEN Return(TRUE)
                        ELSE sanityCheckRectToQuad(w, h, q, M)
           IN  IF ~check.ok THEN check ELSE Return(M)

\* the body of computeHomographyRectToQuad after its two precondition checks
SolveRectToQuad(w, h, q, prod) ==
  LET sol == solveLinearSystem(SystemA(w, h, q), SystemB(q))
  IN  IF ~sol.ok THEN sol
      ELSE LET hv == sol.value
               M == <<hv[1], hv[2], hv[3], hv[4], hv[5], hv[6],
                      hv[7], hv[8], RInt(1)>>
               check == IF prod THEN Return(TRUE)
                        ELSE sanityCheckRectToQuad(w, h, q, M)
           IN  IF ~check.ok THEN check ELSE Return(M)

\* mutant: the quad is validated before the dimensions are checked
computeHomographyRectToQuad_ValidateFirst(w, h, q, prod) ==
  LET validation == validateQuad(q, DEFAULT_EPSILON)
  IN  IF ~validation.ok THEN Throw(ErrInvalidQuadPrefix \o validation.reason)
      ELSE IF RLe(w, Zero) \/ RLe(h, Zero) THEN Throw(ErrDimensions)
      ELSE SolveRectToQuad(w, h, q, prod)

\* mutant: the validator's reason is dropped from the error
computeHomographyRectToQuad_NoReason(w, h, q, prod) ==
  IF RLe(w, Zero) \/ RLe(h, Zero) THEN Throw(ErrDimensions)
  ELSE IF ~validateQuad(q, DEFAULT_EPSILON).ok THEN Throw(ErrInvalidQuadPrefix)
  ELSE SolveRectToQuad(w, h, q, prod)

computeHomographyRectToQuad(w, h, q, prod) ==
  IF RLe(w, Zero) \/ RLe(h, Zero) THEN Throw(ErrDimensions)
  ELSE LET validation == validateQuad(q, DEFAULT_EPSILON)
       IN  IF ~validation.ok THEN Throw(ErrInvalidQuadPrefix \o validation.reason)
           ELSE SolveRectToQuad(w, h, q, prod)

----------------------------------------------------------------------------
(* homography.ts, each operation rounded as the doubles of the source round  *)
(* it.  The pivot search, the swaps and the comparisons are those above; the *)
(* quotients, products and differences are rounded, one operation at a time. *)

RoundedScaleEntry(row, i, c) == IF c >= i THEN FDiv(row[c], row[i]) ELSE row[c]

RoundedScaleRow(row, i) ==
  Array([c \in 1..Len(row) |-> RoundedScaleEntry(row, i, c)])

RoundedEliminateEntry(row, pivotRowScaled, i, c) ==
  IF c >= i THEN FSub(row[c], FMul(row[i], pivotRowScaled[c])) ELSE row[c]

RoundedEliminateRow(row, pivotRowScaled, i) ==
  IF row[i].n = 0 THEN row
  ELSE Array([c \in 1..Len(row) |-> RoundedEliminateEntry(row, pivotRowScaled, i, c)])

RoundedStepRow(A, rowI, i, r) ==
  IF r = i THEN rowI ELSE RoundedEliminateRow(A[r], rowI, i)

RoundedStepB(A, b, bI, i, r) ==
  IF r = i THEN bI
  ELSE IF A[r][i].n = 0 THEN b[r]
  ELSE FSub(b[r], FMul(A[r][i], bI))

RECURSIVE RoundedGaussJordan(_, _, _)
RoundedGaussJordan(A, b, i) ==
  IF i > Len(A) THEN Return(b)
  ELSE LET pivotRow == PivotSearch(A, i, i + 1, i)
       IN  IF A[pivotRow][i].n = 0 THEN Throw(ErrSingular)
           ELSE LET As == Swap(A, i, pivotRow)
                    bs == Swap(b, i, pivotRow)
                    rowI == RoundedScaleRow(As[i], i)
                    bI == FDiv(bs[i], As[i][i])
                    An == Array([r \in 1..Len(As) |-> RoundedStepRow(As, rowI, i, r)])
                    bn == Array([r \in 1..Len(bs) |-> RoundedStepB(As, bs, bI, i, r)])
                IN  RoundedGaussJordan(An, bn, i + 1)

RoundedSolveLinearSystem(A, b) == RoundedGaussJordan(A, b, 1)

RoundedApplyHomography(M, pt) ==
  LET x == pt.x
      y == pt.y
      xPrime == FAdd(FAdd(FMul(M[1], x), FMul(M[2], y)), M[3])
      yPrime == FAdd(FAdd(FMul(M[4], x), FMul(M[5], y)), M[6])
      wPrime == FAdd(FAdd(FMul(M[7], x), FMul(M[8], y)), M[9])
  IN  IF RLt(RAbs(wPrime), W_EPSILON) THEN Throw(ErrDegenerate)
      ELSE Return(Point(FDiv(xPrime, wPrime), FDiv(yPrime, wPrime)))

RECURSIVE RoundedSanityFrom(_, _, _, _, _)
RoundedSanityFrom(w, h, q, M, i) ==
  IF i > 4 THEN Return(TRUE)
  ELSE LET mapped == RoundedApplyHomography(M, RectCorners(w, h)[i])
       IN  IF ~mapped.ok THEN mapped
           ELSE LET dx == FSub(mapped.value.x, q[i].x)
                    dy == FSub(mapped.value.y, q[i].y)
                IN  IF RGt(RAbs(dx), DEFAULT_EPSILON) \/ RGt(RAbs(dy), DEFAULT_EPSILON)
                    THEN Throw(ErrSanity)
                    ELSE RoundedSanityFrom(w, h, q, M, i + 1)

RoundedSanityCheckRectToQuad(w, h, q, M) == RoundedSanityFrom(w, h, q, M, 1)

\* mutant: the consistency check runs in every environment
RoundedSolveRectToQuad_AlwaysChecked(w, h, q, prod) ==
  LET sol == RoundedSolveLinearSystem(SystemA(w, h, q), SystemB(q))
  IN  IF ~sol.ok THEN sol
      ELSE LET hv == sol.value
               M == <<hv[1], hv[2], hv[3], hv[4], hv[5], hv[6],
                      hv[7], hv[8], RInt(1)>>
               check == RoundedSanityCheckRectToQuad(w, h, q, M)
           IN  IF ~check.ok THEN check ELSE Return(M)

\* the corners and the dimensions of the model are small integers: the
\* products of SystemA and the cross products of the validator are exact in
\* Precision bits, and rounding them changes nothing
RoundedSolveRectToQuad(w, h, q, prod) ==
  LET sol == RoundedSolveLinearSystem(SystemA(w, h, q), SystemB(q))
  IN  IF ~sol.ok THEN sol
      ELSE LET hv == sol.value
               M == <<hv[1], hv[2], hv[3], hv[4], hv[5], hv[6],
                      hv[7], hv[8], RInt(1)>>
               check == IF prod THEN Return(TRUE)
                        ELSE RoundedSanityCheckRectToQuad(w, h, q, M)
           IN  IF ~check.ok THEN check ELSE Return(M)

RoundedComputeHomographyRectToQuad(w, h, q, prod) ==
  IF RLe(w, Zero) \/ RLe(h, Zero) THEN Throw(ErrDimensions)
  ELSE LET validation == validateQuad(q, DEFAULT_EPSILON)
       IN  IF ~validation.ok THEN Throw(ErrInvalidQuadPrefix \o validation.reason)
           ELSE RoundedSolveRectToQuad(w, h, q, prod)

----------------------------------------------------------------------------
(* cssMatrix.ts *)

\* mutant: the 16 numbers in row-major order
homographyToCssMatrix3d_RowMajor(M) ==
  <<M[1], M[2], Zero, M[3],
    M[4], M[5], Zero, M[6],
    Zero, Zero, RInt(1), Zero,
    M[7], M[8], Zero, M[9]>>

\* mutant: z is flattened
homographyToCssMatrix3d_FlatZ(M) ==
  <<M[1], M[4], Zero, M[7],
    M[2], M[5], Zero, M[8],
    Zero, Zero, Zero, Zero,
    M[3], M[6], Zero, M[9]>>

\* the 16 numbers in the order the source lists them (CSS matrix3d: column-major)
homographyToCssMatrix3d(M) ==
  LET h00 == M[1]
      h01 == M[2]
      h02 == M[3]
      h10 == M[4]
      h11 == M[5]
      h12 == M[6]
      h20 == M[7]
      h21 == M[8]
      h22 == M[9]
  IN  <<h00, h10, Zero, h20,
        h01, h11, Zero, h21,
        Zero, Zero, RInt(1), Zero,
        h02, h12, Zero, h22>>

----------------------------------------------------------------------------
(* The quad utilities of the core package *)

\* mutant: the corners are listed from the top left downwards
quadFromRect_Mirrored(x, y, w, h) ==
  <<Point(x, y),
    Point(x, FAdd(y, h)),
    Point(FAdd(x, w), FAdd(y, h)),
    Point(FAdd(x, w), y)>>

quadFromRect(x, y, w, h) ==
  <<Point(x, y),
    Point(FAdd(x, w), y),
    Point(FAdd(x, w), FAdd(y, h)),
    Point(x, FAdd(y, h))>>

\* quad.reduce(...) from the corner i on
RECURSIVE SumPoints(_, _, _)
SumPoints(q, i, acc) ==
  IF i > Len(q) THEN acc
  ELSE SumPoints(q, i + 1, Point(FAdd(acc.x, q[i].x), FAdd(acc.y, q[i].y)))

\* mutant: the middle of the diagonal p0 p2
getQuadCenter_Diagonal(q) ==
  Point(FDiv(FAdd(q[1].x, q[3].x), RInt(2)), FDiv(FAdd(q[1].y, q[3].y), RInt(2)))

\* { x: sum.x / quad.length, y: sum.y / quad.length }
DivideSum(sum, length) == Point(FDiv(sum.x, RInt(length)), FDiv(sum.y, RInt(length)))

getQuadCenter(q) == DivideSum(SumPoints(q, 1, Point(Zero, Zero)), Len(q))

\* an omitted argument
Undefined == [undefined |-> TRUE]

\* origin ?? getQuadCenter(quad)
ScaleCenter(q, o) == IF o = Undefined THEN getQuadCenter(q) ELSE o

ScalePoint(pt, center, sx, sy) ==
  Point(FAdd(center.x, FMul(FSub(pt.x, center.x), sx)),
        FAdd(center.y, FMul(FSub(pt.y, center.y), sy)))

\* quad.map(...) with the center chosen
ScaleAbout(q, sx, sy, center) ==
  Array([i \in 1..Len(q) |-> ScalePoint(q[i], center, sx, sy)])

\* mutant: both axes are scaled by scaleX
scaleQuad_Uniform(q, sx, sy, o) == ScaleAbout(q, sx, sx, ScaleCenter(q, o))

scaleQuad(q, sx, sy, o) == ScaleAbout(q, sx, sy, ScaleCenter(q, o))

\* mutant: a zero content dimension is kept
SafeContent_KeepZero(content, stage) ==
  IF FGt(content, Zero) \/ content = Zero THEN content ELSE stage

\* content > 0 ? content : stage
SafeContent(content, stage) == IF FGt(content, Zero) THEN content ELSE stage

\* the scale of contain and of cover
FitScale(sw, sh, cw, ch, f) ==
  IF f = "contain"
  THEN MathMin(FDiv(sw, SafeContent(cw, sw)), FDiv(sh, SafeContent(ch, sh)))
  ELSE MathMax(FDiv(sw, SafeContent(cw, sw)), FDiv(sh, SafeContent(ch, sh)))

\* mutant: stretch is scaled as cover is
TargetSize_StretchScaled(sw, sh, cw, ch, f) ==
  Point(FMul(SafeContent(cw, sw), FitScale(sw, sh, cw, ch, f)),
        FMul(SafeContent(ch, sh), FitScale(sw, sh, cw, ch, f)))

\* targetWidth (x) and targetHeight (y)
TargetSize(sw, sh, cw, ch, f) ==
  IF f = "contain" \/ f = "cover"
  THEN Point(FMul(SafeContent(cw, sw), FitScale(sw, sh, cw, ch, f)),
             FMul(SafeContent(ch, sh), FitScale(sw, sh, cw, ch, f)))
  ELSE Point(sw, sh)

\* mutant: the anchors of top-right and bottom-left are exchanged
Offset_Exchanged(a, sw, sh, tw, th) ==
  IF a = "center" THEN Point(FDiv(FSub(sw, tw), RInt(2)), FDiv(FSub(sh, th), RInt(2)))
  ELSE IF a = "bottom-left" THEN Point(FSub(sw, tw), Zero)
  ELSE IF a = "top-right" THEN Point(Zero, FSub(sh, th))
  ELSE IF a = "bottom-right" THEN Point(FSub(sw, tw), FSub(sh, th))
  ELSE Point(Zero, Zero)

\* offsetX (x) and offsetY (y) of the switch on align
Offset(a, sw, sh, tw, th) ==
  IF a = "center" THEN Point(FDiv(FSub(sw, tw), RInt(2)), FDiv(FSub(sh, th), RInt(2)))
  ELSE IF a = "top-right" THEN Point(FSub(sw, tw), Zero)
  ELSE IF a = "bottom-left" THEN Point(Zero, FSub(sh, th))
  ELSE IF a = "bottom-right" THEN Point(FSub(sw, tw), FSub(sh, th))
  ELSE Point(Zero, Zero)

PlaceTarget(a, sw, sh, target) ==
  quadFromRect(Offset(a, sw, sh, target.x, target.y).x,
               Offset(a, sw, sh, target.x, target.y).y,
               target.x, target.y)

computeFullscreenQuad(sw, sh, cw, ch, f, a) ==
  PlaceTarget(a, sw, sh, TargetSize(sw, sh, cw, ch, f))

----------------------------------------------------------------------------
(* App.tsx: the transform of a surface layer *)

IdentityMatrix4x4 ==
  <<RInt(1), Zero, Zero, Zero,
    Zero, RInt(1), Zero, Zero,
    Zero, Zero, RInt(1), Zero,
    Zero, Zero, Zero, RInt(1)>>

\* try { embed(solve(...)) } catch { console.warn(...); identity }
MatrixOrIdentity(solved) ==
  IF solved.ok THEN Return(homographyToCssMatrix3d(solved.value))
  ELSE Return(IdentityMatrix4x4)

SurfaceLayerMatrix(w, h, renderQuad, prod) ==
  MatrixOrIdentity(computeHomographyRectToQuad(w, h, renderQuad, prod))

----------------------------------------------------------------------------
(* Arguments *)

GridPoints == {Point(RInt(x), RInt(y)) : x \in 0..MaxCoord, y \in 0..MaxCoord}

Quads == {<<a, b, c, d>> : a \in GridPoints, b \in GridPoints,
                           c \in GridPoints, d \in GridPoints}

\* the default tolerance, and a coarse one at which the grid has boundary cases
Epsilons == {DEFAULT_EPSILON, RInt(1)}

\* widths and heights: the non-positive ones and 1..MaxDim
Dims == {RInt(i) : i \in (-1)..MaxDim}

\* matrices: the two upper rows over 0..MaxEntry; the bottom row either of
\* ordinary numbers or of numbers at the scale of W_EPSILON
Entries == {RInt(i) : i \in 0..MaxEntry}
HalfWEpsilon == [n |-> 5, d |-> 1, e |-> -13]
OrdinaryBottoms == {<<g, h, i>> : g \in {Zero, RInt(1), RInt(-1)},
                                  h \in {Zero, RInt(1)}, i \in {Zero, RInt(1)}}
TinyBottoms == {<<g, h, i>> : g \in {Zero, W_EPSILON, RNeg(W_EPSILON)},
                              h \in {Zero, W_EPSILON},
                              i \in {Zero, W_EPSILON, HalfWEpsilon}}
Matrices == {<<a, b, c, d, e, f, bt[1], bt[2], bt[3]>> :
               a \in Entries, b \in Entries, c \in Entries,
               d \in Entries, e \in Entries, f \in Entries,
               bt \in OrdinaryBottoms \cup TinyBottoms}

ProbePoints == {Point(RInt(x), RInt(y)) : x \in 0..MaxProbe, y \in 0..MaxProbe}

NoQuad == <<Point(Zero, Zero), Point(Zero, Zero), Point(Zero, Zero), Point(Zero, Zero)>>
NoMatrix == <<Zero, Zero, Zero, Zero, Zero, Zero, Zero, Zero, Zero>>
NoResult == [none |-> TRUE]

\* no call of a quad utility is made
NoLayoutArgs ==
  /\ rect = <<Zero, Zero, Zero, Zero>>
  /\ scaleX = Zero
  /\ scaleY = Zero
  /\ origin = Point(Zero, Zero)
  /\ stageWidth = Zero
  /\ stageHeight = Zero
  /\ contentWidth = Zero
  /\ contentHeight = Zero
  /\ fit = "stretch"
  /\ align = "center"

\* no call of the math core is made
NoCoreArgs ==
  /\ epsilon = DEFAULT_EPSILON
  /\ width = Zero
  /\ height = Zero
  /\ isProd = FALSE
  /\ H = NoMatrix
  /\ p = Point(Zero, Zero)

\* floats: a half, small integers, and the largest odd integer every bit of
\* whose significand is used
Half == [n |-> 1, d |-> 2, e |-> 0]
Big == RInt(Pow2(Precision) - 1)

\* rectangles (x, y, width, height)
RectArgs == {<<x, y, w, h>> : x \in {Zero, Half, RInt(3), Big},
                             y \in {Zero, Half},
                             w \in {Half, RInt(1), RInt(3), Big},
                             h \in {RInt(1), Big}}

\* corners of the quads that are no rectangles
LayoutPoints ==
  {Point(Zero, Zero), Point(RInt(3), Zero), Point(RInt(3), RInt(1)),
   Point(Half, RInt(3)), Point(Big, Half), Point(RInt(-1), Big)}

LayoutQuads == {<<a, b, c, d>> : a \in LayoutPoints, b \in LayoutPoints,
                                 c \in LayoutPoints, d \in LayoutPoints}

\* the quads that are scaled
ScalePoints ==
  {Point(Zero, Zero), Point(RInt(3), RInt(1)), Point(Half, RInt(3)), Point(Big, Half)}

ScaleQuads == {<<a, b, c, d>> : a \in ScalePoints, b \in ScalePoints,
                                c \in ScalePoints, d \in ScalePoints}

\* scale factors, and origins: omitted, or a point
Scales == {RInt(1), RInt(3), Half}

Origins == {Undefined, Point(Zero, Zero), Point(Big, Half), Point(Half, RInt(3))}

\* stage and content dimensions, fits and anchors
StageDims == {Zero, RInt(5), RInt(10), RInt(500), RInt(1000)}

ContentDims == {RInt(-1), Zero, RInt(1), RInt(15), RInt(29), RInt(400)}

Fits == {"stretch", "contain", "cover"}

Aligns == {"center", "top-left", "top-right", "bottom-left", "bottom-right"}

----------------------------------------------------------------------------
(* Calls *)

ValidateQuad ==
  /\ pc = "ready"
  /\ pc' = "done"
  /\ op' = "validateQuad"
  /\ result' = validateQuad(quad, epsilon)
  /\ UNCHANGED <<quad, epsilon, width, height, isProd, H, p, layoutArgs>>

InitValidate ==
  /\ pc = "ready"
  /\ op = "none"
  /\ quad \in Quads
  /\ epsilon \in Epsilons
  /\ width = Zero
  /\ height = Zero
  /\ isProd = FALSE
  /\ H = NoMatrix
  /\ p = Point(Zero, Zero)
  /\ result = NoResult
  /\ NoLayoutArgs

NextValidate == ValidateQuad

SpecValidate == InitValidate /\ [][NextValidate]_vars

ComputeHomographyRectToQuad ==
  /\ pc = "ready"
  /\ pc' = "done"
  /\ op' = "computeHomographyRectToQuad"
  /\ result' = computeHomographyRectToQuad(width, height, quad, isProd)
  /\ UNCHANGED <<quad, epsilon, width, height, isProd, H, p, layoutArgs>>

InitHomography ==
  /\ pc = "ready"
  /\ op = "none"
  /\ quad \in Quads
  /\ epsilon = DEFAULT_EPSILON
  /\ width \in Dims
  /\ height \in Dims
  /\ isProd \in BOOLEAN
  /\ H = NoMatrix
  /\ p = Point(Zero, Zero)
  /\ result = NoResult
  /\ NoLayoutArgs

NextHomography == ComputeHomographyRectToQuad

SpecHomography == InitHomography /\ [][NextHomography]_vars

\* the same call, computed as the doubles of the source compute it
ComputeHomographyRectToQuadRounded ==
  /\ pc = "ready"
  /\ pc' = "done"
  /\ op' = "computeHomographyRectToQuad"
  /\ result' = RoundedComputeHomographyRectToQuad(width, height, quad, isProd)
  /\ UNCHANGED <<quad, epsilon, width, height, isProd, H, p, layoutArgs>>

NextHomographyRounded == ComputeHomographyRectToQuadRounded

SpecHomographyRounded == InitHomography /\ [][NextHomographyRounded]_vars

\* solveLinearSystem on the system of a rectangle and a quad, validated or
\* not, each operation rounded
SolveLinearSystem ==
  /\ pc = "ready"
  /\ pc' = "done"
  /\ op' = "solveLinearSystem"
  /\ result' = RoundedSolveLinearSystem(SystemA(width, height, quad), SystemB(quad))
  /\ UNCHANGED <<quad, epsilon, width, height, isProd, H, p, layoutArgs>>

\* the systems of the quads with the first corner at the origin
InitSolve == InitHomography /\ ~isProd /\ quad[1] = Point(Zero, Zero)

NextSolve == SolveLinearSystem

SpecSolve == InitSolve /\ [][NextSolve]_vars

\* calls on parallelograms p0, p0 + e1, p0 + e1 + e2, p0 + e2, the source
\* rectangle among them, large enough for the elimination to round
InitAffine ==
  /\ pc = "ready"
  /\ op = "none"
  /\ \E p0 \in {Point(Zero, Zero), Point(RInt(12), RInt(3))} :
       \E e1 \in {Point(RInt(8), RInt(2)), Point(RInt(7), Zero), Point(RInt(11), Zero)} :
         \E e2 \in {Point(RInt(10), RInt(11)), Point(Zero, RInt(4)), Point(Zero, RInt(2))} :
           quad = <<p0,
                    Point(RAdd(p0.x, e1.x), RAdd(p0.y, e1.y)),
                    Point(RAdd(RAdd(p0.x, e1.x), e2.x), RAdd(RAdd(p0.y, e1.y), e2.y)),
                    Point(RAdd(p0.x, e2.x), RAdd(p0.y, e2.y))>>
  /\ epsilon = DEFAULT_EPSILON
  /\ width \in {RInt(7), RInt(11)}
  /\ height \in {RInt(2), RInt(4)}
  /\ isProd \in BOOLEAN
  /\ H = NoMatrix
  /\ p = Point(Zero, Zero)
  /\ result = NoResult
  /\ NoLayoutArgs

SpecAffine == InitAffine /\ [][NextHomographyRounded]_vars

SurfaceLayer ==
  /\ pc = "ready"
  /\ pc' = "done"
  /\ op' = "SurfaceLayer"
  /\ result' = SurfaceLayerMatrix(width, height, quad, isProd)
  /\ UNCHANGED <<quad, epsilon, width, height, isProd, H, p, layoutArgs>>

NextSurfaceLayer == SurfaceLayer

SpecSurfaceLayer == InitHomography /\ [][NextSurfaceLayer]_vars

ApplyHomography ==
  /\ pc = "ready"
  /\ pc' = "done"
  /\ op' = "applyHomography"
  /\ result' = applyHomography(H, p)
  /\ UNCHANGED <<quad, epsilon, width, height, isProd, H, p, layoutArgs>>

HomographyToCssMatrix3d ==
  /\ pc = "ready"
  /\ pc' = "done"
  /\ op' = "homographyToCssMatrix3d"
  /\ result' = Return(homographyToCssMatrix3d(H))
  /\ UNCHANGED <<quad, epsilon, width, height, isProd, H, p, layoutArgs>>

InitMatrix ==
  /\ pc = "ready"
  /\ op = "none"
  /\ quad = NoQuad
  /\ epsilon = DEFAULT_EPSILON
  /\ width = Zero
  /\ height = Zero
  /\ isProd = FALSE
  /\ H \in Matrices
  /\ p \in ProbePoints
  /\ result = NoResult
  /\ NoLayoutArgs

NextMatrix == ApplyHomography \/ HomographyToCssMatrix3d

SpecMatrix == InitMatrix /\ [][NextMatrix]_vars

GetQuadCenter ==
  /\ pc = "ready"
  /\ pc' = "done"
  /\ op' = "getQuadCenter"
  /\ result' = Return(getQuadCenter(quad))
  /\ UNCHANGED <<quad, epsilon, width, height, isProd, H, p, layoutArgs>>

\* the quad is built from a rectangle, or is any quad
InitCenter ==
  /\ pc = "ready"
  /\ op = "none"
  /\ NoCoreArgs
  /\ \/ /\ rect \in RectArgs
        /\ quad = quadFromRect(rect[1], rect[2], rect[3], rect[4])
     \/ /\ rect = <<Zero, Zero, Zero, Zero>>
        /\ quad \in LayoutQuads
  /\ scaleX = Zero
  /\ scaleY = Zero
  /\ origin = Point(Zero, Zero)
  /\ stageWidth = Zero
  /\ stageHeight = Zero
  /\ contentWidth = Zero
  /\ contentHeight = Zero
  /\ fit = "stretch"
  /\ align = "center"
  /\ result = NoResult

NextCenter == GetQuadCenter

SpecCenter == InitCenter /\ [][NextCenter]_vars

\* mutant: the corners are scaled in place, in the quad passed in
ScaleQuad_InPlace ==
  /\ pc = "ready"
  /\ pc' = "done"
  /\ op' = "scaleQuad"
  /\ quad' = scaleQuad(quad, scaleX, scaleY, origin)
  /\ result' = Return(quad')
  /\ UNCHANGED <<epsilon, width, height, isProd, H, p, layoutArgs>>

ScaleQuad ==
  /\ pc = "ready"
  /\ pc' = "done"
  /\ op' = "scaleQuad"
  /\ result' = Return(scaleQuad(quad, scaleX, scaleY, origin))
  /\ UNCHANGED <<quad, epsilon, width, height, isProd, H, p, layoutArgs>>

InitScale ==
  /\ pc = "ready"
  /\ op = "none"
  /\ NoCoreArgs
  /\ quad \in ScaleQuads
  /\ rect = <<Zero, Zero, Zero, Zero>>
  /\ scaleX \in Scales
  /\ scaleY \in Scales
  /\ origin \in Origins
  /\ stageWidth = Zero
  /\ stageHeight = Zero
  /\ contentWidth = Zero
  /\ contentHeight = Zero
  /\ fit = "stretch"
  /\ align = "center"
  /\ result = NoResult

NextScale == ScaleQuad

SpecScale == InitScale /\ [][NextScale]_vars

\* scale factors of either sign, and 0
SignedScales == {RInt(-1), Zero, Half, RInt(3)}

InitScaleSigned ==
  /\ pc = "ready"
  /\ op = "none"
  /\ NoCoreArgs
  /\ quad \in ScaleQuads
  /\ rect = <<Zero, Zero, Zero, Zero>>
  /\ scaleX \in SignedScales
  /\ scaleY \in SignedScales
  /\ origin \in Origins
  /\ stageWidth = Zero
  /\ stageHeight = Zero
  /\ contentWidth = Zero
  /\ contentHeight = Zero
  /\ fit = "stretch"
  /\ align = "center"
  /\ result = NoResult

SpecScaleSigned == InitScaleSigned /\ [][NextScale]_vars

ComputeFullscreenQuad ==
  /\ pc = "ready"
  /\ pc' = "done"
  /\ op' = "computeFullscreenQuad"
  /\ result' = Return(computeFullscreenQuad(stageWidth, stageHeight,
                                            contentWidth, contentHeight, fit, align))
  /\ UNCHANGED <<quad, epsilon, width, height, isProd, H, p, layoutArgs>>

InitFullscreen ==
  /\ pc = "ready"
  /\ op = "none"
  /\ NoCoreArgs
  /\ quad = NoQuad
  /\ rect = <<Zero, Zero, Zero, Zero>>
  /\ scaleX = Zero
  /\ scaleY = Zero
  /\ origin = Point(Zero, Zero)
  /\ stageWidth \in StageDims
  /\ stageHeight \in StageDims
  /\ contentWidth \in ContentDims
  /\ contentHeight \in ContentDims
  /\ fit \in Fits
  /\ align \in Aligns
  /\ result = NoResult

NextFullscreen == ComputeFullscreenQuad

SpecFullscreen == InitFullscreen /\ [][NextFullscreen]_vars

\* stage sizes; never 0: a zero side is replaced by the default size
RenderStageDims == {RInt(4), RInt(8)}

\* surface sizes
RenderSurfaceDims == {Zero, RInt(1), RInt(3), RInt(8192)}

\* getRenderQuad of a fullscreen surface: surface.width and surface.height
\* are both the content size of the fullscreen quad and the source rectangle
\* of the homography of the surface's layer
InitRender ==
  /\ pc = "ready"
  /\ op = "none"
  /\ quad = NoQuad
  /\ epsilon = DEFAULT_EPSILON
  /\ contentWidth \in RenderSurfaceDims
  /\ contentHeight \in RenderSurfaceDims
  /\ width = contentWidth
  /\ height = contentHeight
  /\ isProd \in BOOLEAN
  /\ H = NoMatrix
  /\ p = Point(Zero, Zero)
  /\ rect = <<Zero, Zero, Zero, Zero>>
  /\ scaleX = Zero
  /\ scaleY = Zero
  /\ origin = Point(Zero, Zero)
  /\ stageWidth \in RenderStageDims
  /\ stageHeight \in RenderStageDims
  /\ fit \in Fits
  /\ align \in Aligns
  /\ result = NoResult

SpecRender == InitRender /\ [][NextFullscreen]_vars


\* the arguments of the calls of SpecCore: every operation has arguments
\* to be called with
CoreQuads == {q \in Quads : q[1] = Point(Zero, Zero) /\ q[2].y = Zero}

CoreMatrices ==
  {<<RInt(1), Zero, c, Zero, RInt(1), Zero, bt[1], bt[2], bt[3]>> :
     c \in Entries,
     bt \in {<<Zero, Zero, RInt(1)>>, <<RInt(1), Zero, Zero>>, <<Zero, Zero, Zero>>}}

\* a caller that holds a quad, a matrix and a point, and calls one of the
\* operations that take them
InitCore ==
  /\ pc = "ready"
  /\ op = "none"
  /\ quad \in CoreQuads
  /\ epsilon = DEFAULT_EPSILON
  /\ width = RInt(MaxDim)
  /\ height \in {RInt(1), RInt(MaxDim)}
  /\ isProd = FALSE
  /\ H \in CoreMatrices
  /\ p \in ProbePoints
  /\ rect = <<Zero, Zero, Zero, Zero>>
  /\ scaleX = RInt(3)
  /\ scaleY = Half
  /\ origin \in {Undefined, Point(Zero, Zero)}
  /\ stageWidth = Zero
  /\ stageHeight = Zero
  /\ contentWidth = Zero
  /\ contentHeight = Zero
  /\ fit = "stretch"
  /\ align = "center"
  /\ result = NoResult

NextCore ==
  \/ ValidateQuad
  \/ ComputeHomographyRectToQuad
  \/ ApplyHomography
  \/ HomographyToCssMatrix3d
  \/ GetQuadCenter
  \/ ScaleQuad

SpecCore == InitCore /\ [][NextCore]_vars

Init ==
  \/ InitValidate
  \/ InitHomography
  \/ InitAffine
  \/ InitMatrix
  \/ InitCenter
  \/ InitScale
  \/ InitScaleSigned
  \/ InitFullscreen
  \/ InitRender
  \/ InitCore

Next ==
  \/ GetQuadCenter
  \/ ScaleQuad
  \/ ComputeFullscreenQuad
  \/ ValidateQuad
  \/ ComputeHomographyRectToQuad
  \/ ComputeHomographyRectToQuadRounded
  \/ SolveLinearSystem
  \/ SurfaceLayer
  \/ ApplyHomography
  \/ HomographyToCssMatrix3d

Spec == Init /\ [][Next]_vars

----------------------------------------------------------------------------
(* Properties *)

Called(name) == pc = "done" /\ op = name

PositiveDims == RGt(width, Zero) /\ RGt(height, Zero)

Within(a, b, tol) == RLe(RAbs(RSub(a, b)), tol)

\* the five invariants of a Quad, stated on the corners
NoCoincidentPoints(q) ==
  \A i \in 1..4 : \A j \in 1..4 :
    i # j => ~(REq(q[i].x, q[j].x) /\ REq(q[i].y, q[j].y))

NoThreeCollinear(q, eps) ==
  \A i \in 1..4 : \A j \in (i + 1)..4 : \A k \in (j + 1)..4 :
    RGt(RAbs(cross(q[i], q[j], q[k])), eps)

AreaBeyond(q, eps) == RGt(RAbs(quadArea(q)), eps)

ClockwiseYDown(q) == RGt(quadArea(q), Zero)

OppositeBeyond(u, v, eps) ==
  /\ RGt(RAbs(u), eps)
  /\ RGt(RAbs(v), eps)
  /\ (RGt(u, Zero) /\ RLt(v, Zero)) \/ (RLt(u, Zero) /\ RGt(v, Zero))

\* segment ab properly crosses segment cd
ProperlyCross(a, b, c, d, eps) ==
  /\ OppositeBeyond(cross(a, b, c), cross(a, b, d), eps)
  /\ OppositeBeyond(cross(c, d, a), cross(c, d, b), eps)

Bowtie(q, eps) ==
  \/ ProperlyCross(q[1], q[2], q[3], q[4], eps)
  \/ ProperlyCross(q[2], q[3], q[4], q[1], eps)

Mirror(q) == <<q[1], q[4], q[3], q[2]>>

\* C1, with the solver and the projector computing exactly: for positive
\* width and height and a quad the validator accepts,
\* computeHomographyRectToQuad returns a matrix, and applyHomography maps the
\* four canonical corners of the rectangle onto the corners of the quad
\* within the tolerance 1e-6.
C1_SolveReproducesCorners ==
  (Called("computeHomographyRectToQuad") /\ PositiveDims
     /\ validateQuad(quad, DEFAULT_EPSILON).ok)
  => /\ result.ok
     /\ \A i \in 1..4 :
          LET mapped == applyHomography(result.value, RectCorners(width, height)[i])
          IN  /\ mapped.ok
              /\ Within(mapped.value.x, quad[i].x, DEFAULT_EPSILON)
              /\ Within(mapped.value.y, quad[i].y, DEFAULT_EPSILON)

\* a solved homography with perspective, of a rectangle that is no square
C1_Witness ==
  /\ Called("computeHomographyRectToQuad")
  /\ result.ok
  /\ ~REq(width, height)
  /\ result.value[7].n # 0
  /\ result.value[8].n # 0

\* C1: for every width > 0, height > 0 and every quad that validateQuad
\* accepts, computeHomographyRectToQuad returns a matrix (it raises neither
\* the singular-system nor the sanity-check error), and applyHomography maps
\* the four canonical corners onto the quad's corners within epsilon; the
\* solver and the projector round every operation, as the source does.
C1_RoundedSolveReproducesCorners ==
  (Called("computeHomographyRectToQuad") /\ PositiveDims
     /\ validateQuad(quad, DEFAULT_EPSILON).ok)
  => /\ result.ok
     /\ \A i \in 1..4 :
          LET mapped == RoundedApplyHomography(result.value,
                                               RectCorners(width, height)[i])
          IN  /\ mapped.ok
              /\ Within(mapped.value.x, quad[i].x, DEFAULT_EPSILON)
              /\ Within(mapped.value.y, quad[i].y, DEFAULT_EPSILON)

\* C2: validateQuad returns ok exactly when the five invariants of a Quad
\* hold: no two points equal, every triple with |cross| > eps, |area| > eps,
\* area > 0, and no opposite pair of edges properly crossing.
C2_OkIffInvariants ==
  Called("validateQuad")
  => (result.ok <=> /\ NoCoincidentPoints(quad)
                    /\ NoThreeCollinear(quad, epsilon)
                    /\ AreaBeyond(quad, epsilon)
                    /\ ClockwiseYDown(quad)
                    /\ ~Bowtie(quad, epsilon))

\* a quad accepted at the coarse tolerance
C2_Witness ==
  /\ Called("validateQuad")
  /\ result.ok
  /\ REq(epsilon, RInt(1))

C4_BowtieRejected ==
  (Called("validateQuad") /\ Bowtie(quad, epsilon))
  => /\ ~result.ok
     /\ result.reason = ReasonSelfIntersecting
          <=> /\ NoCoincidentPoints(quad)
              /\ NoThreeCollinear(quad, epsilon)
              /\ AreaBeyond(quad, epsilon)
              /\ ClockwiseYDown(quad)

\* a bowtie of positive area, whose crossing pair is p1p2 and p3p0
C4_Witness ==
  /\ Called("validateQuad")
  /\ ProperlyCross(quad[2], quad[3], quad[4], quad[1], epsilon)
  /\ ~result.ok
  /\ result.reason = ReasonSelfIntersecting

\* C5: with width <= 0 or height <= 0 computeHomographyRectToQuad fails with
\* the dimension error, whatever the quad: the dimensions are checked before
\* the quad is validated, and no matrix is returned.
C5_DimensionsFirst ==
  (Called("computeHomographyRectToQuad") /\ ~PositiveDims)
  => result = Throw(ErrDimensions)

\* a zero width with a quad the validator rejects
C5_Witness ==
  /\ Called("computeHomographyRectToQuad")
  /\ REq(width, Zero)
  /\ RGt(height, Zero)
  /\ ~validateQuad(quad, DEFAULT_EPSILON).ok
  /\ ~result.ok

ValidatorReasons ==
  {ReasonDuplicate, ReasonCollinear, ReasonArea, ReasonClockwise, ReasonSelfIntersecting}

SolverErrors ==
  {ErrInvalidQuadPrefix \o r : r \in ValidatorReasons}
    \cup {ErrDimensions, ErrSingular, ErrDegenerate, ErrSanity}

\* C6: with positive dimensions and a quad that validateQuad(quad, 1e-6)
\* rejects, computeHomographyRectToQuad fails with an invalid-quad error that
\* carries exactly the validator's reason; the five validator reasons and
\* the dimension, singular-system, degenerate-projection and sanity-check
\* errors are pairwise different.
C6_InvalidQuadCarriesReason ==
  /\ Cardinality(ValidatorReasons) = 5
  /\ Cardinality(SolverErrors) = 9
  /\ (Called("computeHomographyRectToQuad") /\ PositiveDims
        /\ ~validateQuad(quad, DEFAULT_EPSILON).ok)
     => /\ ~result.ok
        /\ result.error = ErrInvalidQuadPrefix \o validateQuad(quad, DEFAULT_EPSILON).reason
        /\ result.error \in SolverErrors

\* a self-intersecting quad reported through the solver
C6_Witness ==
  /\ Called("computeHomographyRectToQuad")
  /\ ~result.ok
  /\ result.error = ErrInvalidQuadPrefix \o ReasonSelfIntersecting

\* C7: whenever computeHomographyRectToQuad fails, no matrix is produced for
\* rendering: the failure is not downgraded to a default or identity
\* transform.
C7_NoMatrixOnFailure ==
  (Called("SurfaceLayer")
     /\ ~computeHomographyRectToQuad(width, height, quad, isProd).ok)
  => ~result.ok

\* the three homogeneous components of the claim's formula
XPrime(M, pt) == RAdd(RAdd(RMul(M[1], pt.x), RMul(M[2], pt.y)), M[3])
YPrime(M, pt) == RAdd(RAdd(RMul(M[4], pt.x), RMul(M[5], pt.y)), M[6])
WPrime(M, pt) == RAdd(RAdd(RMul(M[7], pt.x), RMul(M[8], pt.y)), M[9])

\* C8: applyHomography fails with the degenerate-projection error exactly
\* when |w'| < 1e-12 (a |w'| equal to the threshold is no failure); otherwise
\* it returns (x'/w', y'/w').
C8_DegenerateIffBelowThreshold ==
  Called("applyHomography")
  => IF RLt(RAbs(WPrime(H, p)), W_EPSILON)
     THEN result = Throw(ErrDegenerate)
     ELSE /\ result.ok
          /\ REq(result.value.x, RDiv(XPrime(H, p), WPrime(H, p)))
          /\ REq(result.value.y, RDiv(YPrime(H, p), WPrime(H, p)))

\* a projection whose |w'| is exactly the threshold, with w' negative
C8_Witness ==
  /\ Called("applyHomography")
  /\ REq(WPrime(H, p), RNeg(W_EPSILON))
  /\ result.ok
  /\ result.value.x.n # 0

\* the product of a 4 x 4 matrix, read in column-major order, with a column
Transform4(M, v) ==
  [r \in 1..4 |-> RAdd(RAdd(RMul(M[r], v[1]), RMul(M[4 + r], v[2])),
                       RAdd(RMul(M[8 + r], v[3]), RMul(M[12 + r], v[4])))]

\* C9: for a point whose w' is not degenerate, the matrix of
\* homographyToCssMatrix3d(H), read in column-major order and applied to
\* (x, y, 0, 1), gives after the division by the resulting w the point that
\* applyHomography(H, p) returns.
C9_EmbeddingRoundTrip ==
  (Called("homographyToCssMatrix3d") /\ applyHomography(H, p).ok)
  => LET v == Transform4(result.value, <<p.x, p.y, Zero, RInt(1)>>)
         projected == applyHomography(H, p).value
     IN  /\ v[4].n # 0
         /\ REq(RDiv(v[1], v[4]), projected.x)
         /\ REq(RDiv(v[2], v[4]), projected.y)

\* an embedding whose nine entries all take part, x and y apart
C9_Witness ==
  /\ Called("homographyToCssMatrix3d")
  /\ applyHomography(H, p).ok
  /\ H[2].n # 0 /\ H[3].n # 0 /\ H[4].n # 0 /\ H[7].n # 0 /\ H[8].n = 0
  /\ p.x.n # 0 /\ p.y.n # 0
  /\ ~REq(applyHomography(H, p).value.x, applyHomography(H, p).value.y)

ZValues == {RInt(-1), RInt(1), RInt(2)}

\* C10: the embedded matrix is the identity on the z axis: applied to
\* (x, y, z, 1) it returns z unchanged, its x, y and w do not depend on z,
\* and its z row and z column are (0, 0, 1, 0).
C10_ZPassThrough ==
  Called("homographyToCssMatrix3d")
  => LET M == result.value
         flat == Transform4(M, <<p.x, p.y, Zero, RInt(1)>>)
     IN  /\ <<M[3], M[7], M[11], M[15]>> = <<Zero, Zero, RInt(1), Zero>>
         /\ <<M[9], M[10], M[11], M[12]>> = <<Zero, Zero, RInt(1), Zero>>
         /\ \A z \in ZValues :
              LET v == Transform4(M, <<p.x, p.y, z, RInt(1)>>)
              IN  /\ REq(v[3], z)
                  /\ REq(v[1], flat[1])
                  /\ REq(v[2], flat[2])
                  /\ REq(v[4], flat[4])

\* an embedding of a matrix with perspective, applied off the origin
C10_Witness ==
  /\ Called("homographyToCssMatrix3d")
  /\ H[7].n # 0 /\ H[8].n # 0 /\ H[9].n # 0
  /\ p.x.n # 0 /\ p.y.n # 0

\* the equations of the correspondence s -> t, on a matrix read row by row:
\* (h00 h01 h02) is the x row, (h10 h11 h12) the y row, (h20 h21 h22) the w row
CorrespondsRowMajor(M, s, t) ==
  LET w == RAdd(RAdd(RMul(M[7], s.x), RMul(M[8], s.y)), M[9])
  IN  /\ REq(RAdd(RAdd(RMul(M[1], s.x), RMul(M[2], s.y)), M[3]), RMul(t.x, w))
      /\ REq(RAdd(RAdd(RMul(M[4], s.x), RMul(M[5], s.y)), M[6]), RMul(t.y, w))

\* C11: every matrix computeHomographyRectToQuad returns has 1 as its last
\* element (index 8 of the source), and its first eight elements are the
\* solved unknowns h00, h01, h02, h10, h11, h12, h20, h21 in this order, row
\* by row: read so, the matrix satisfies the equations of the four
\* correspondences.
C11_RowMajorWithUnitCorner ==
  (Called("computeHomographyRectToQuad") /\ result.ok)
  => LET M == result.value
         sol == solveLinearSystem(SystemA(width, height, quad), SystemB(quad))
     IN  /\ Len(M) = 9
         /\ M[9] = RInt(1)
         /\ sol.ok
         /\ \A k \in 1..8 : M[k] = sol.value[k]
         /\ \A i \in 1..4 :
              CorrespondsRowMajor(M, RectCorners(width, height)[i], quad[i])

\* a matrix returned without the sanity check, that is not symmetric
C11_Witness ==
  /\ Called("computeHomographyRectToQuad")
  /\ isProd
  /\ result.ok
  /\ ~REq(result.value[2], result.value[4])
  /\ ~REq(result.value[3], result.value[7])

\* the sum of one coordinate of the four corners, and its partial sums
ExactSum(a, b, c, d) == RAdd(RAdd(RAdd(a, b), c), d)

Representable(r) == Fl(r) = r

SumsExact(a, b, c, d) ==
  /\ Representable(RAdd(a, b))
  /\ Representable(RAdd(RAdd(a, b), c))
  /\ Representable(ExactSum(a, b, c, d))

ExactMean(q) ==
  Point(RDiv(ExactSum(q[1].x, q[2].x, q[3].x, q[4].x), RInt(4)),
        RDiv(ExactSum(q[1].y, q[2].y, q[3].y, q[4].y), RInt(4)))

\* three roundings of relative size 2^-Precision on the sum of a, b, c, d:
\* |c - m| * 4 * (2^Precision - 3) <= 3 * (|a| + |b| + |c| + |d|)
WithinThreeRoundings(c, m, a, b, cc, d) ==
  RLe(RMul(RAbs(RSub(c, m)), RInt(4 * (Pow2(Precision) - 3))),
      RMul(RInt(3), ExactSum(RAbs(a), RAbs(b), RAbs(cc), RAbs(d))))

IsRectQuad == quad = quadFromRect(rect[1], rect[2], rect[3], rect[4])

\* the mean of a, b, c, d as floating point computes it in this order
FloatMean(a, b, c, d) == FDiv(FAdd(FAdd(FAdd(a, b), c), d), RInt(4))

\* C12 as stated, its expressions evaluated in floating point:
\* getQuadCenter returns the arithmetic mean of the four corners, and for
\* the quad of the rectangle (x, y, w, h) it returns (x + w/2, y + h/2).
C12_CenterIsMean ==
  Called("getQuadCenter")
  => /\ result.value.x = FloatMean(quad[1].x, quad[2].x, quad[3].x, quad[4].x)
     /\ result.value.y = FloatMean(quad[1].y, quad[2].y, quad[3].y, quad[4].y)
     /\ IsRectQuad
          => result.value = Point(FAdd(rect[1], FDiv(rect[3], RInt(2))),
                                  FAdd(rect[2], FDiv(rect[4], RInt(2))))

\* C12 as amended: getQuadCenter returns the mean of the four corners as
\* floating point computes it, summing from 0 in corner order and dividing
\* by 4: the exact mean when no partial sum is rounded, and otherwise within
\* three roundings of it; for the quad of the rectangle (x, y, w, h) it
\* returns (x + w/2, y + h/2) when x + w, y + h and the partial sums are not
\* rounded.
C12_CenterIsRoundedMean ==
  Called("getQuadCenter")
  => LET c == result.value
         m == ExactMean(quad)
         exactX == SumsExact(quad[1].x, quad[2].x, quad[3].x, quad[4].x)
         exactY == SumsExact(quad[1].y, quad[2].y, quad[3].y, quad[4].y)
     IN  /\ exactX => c.x = m.x
         /\ exactY => c.y = m.y
         /\ WithinThreeRoundings(c.x, m.x, quad[1].x, quad[2].x, quad[3].x, quad[4].x)
         /\ WithinThreeRoundings(c.y, m.y, quad[1].y, quad[2].y, quad[3].y, quad[4].y)
         /\ (IsRectQuad /\ exactX /\ Representable(RAdd(rect[1], rect[3])))
              => c.x = RAdd(rect[1], RDiv(rect[3], RInt(2)))
         /\ (IsRectQuad /\ exactY /\ Representable(RAdd(rect[2], rect[4])))
              => c.y = RAdd(rect[2], RDiv(rect[4], RInt(2)))

\* the centre of a rectangle: x is rounded, y is exact and no integer
C12_Witness ==
  /\ Called("getQuadCenter")
  /\ IsRectQuad
  /\ rect[3].n # 0
  /\ result.value.x # ExactMean(quad).x
  /\ result.value.y = RAdd(rect[2], RDiv(rect[4], RInt(2)))
  /\ result.value.y.d # 1

\* C13: scaleQuad(quad, 1, 1) equals quad corner for corner, for every quad
\* and every origin, omitted or given.
C13_ScaleByOneIsIdentity ==
  (Called("scaleQuad") /\ scaleX = RInt(1) /\ scaleY = RInt(1))
  => result.value = quad

\* the origin the call scales about
OriginUsed == IF origin = Undefined THEN getQuadCenter(quad) ELSE origin

\* C14: scaleQuad maps every corner p, in order, to
\* (o.x + (p.x - o.x) * scaleX, o.y + (p.y - o.y) * scaleY), where o is the
\* origin given or, when it is omitted, the centre of the quad; x does not
\* depend on scaleY nor y on scaleX.
C14_ScalesOffsetsFromOrigin ==
  Called("scaleQuad")
  => LET o == OriginUsed
         otherY == [s \in Scales |-> scaleQuad(quad, scaleX, s, origin)]
         otherX == [s \in Scales |-> scaleQuad(quad, s, scaleY, origin)]
     IN  /\ Len(result.value) = 4
         /\ \A i \in 1..4 :
              /\ result.value[i].x = FAdd(o.x, FMul(FSub(quad[i].x, o.x), scaleX))
              /\ result.value[i].y = FAdd(o.y, FMul(FSub(quad[i].y, o.y), scaleY))
              /\ \A s \in Scales :
                   /\ otherY[s][i].x = result.value[i].x
                   /\ otherX[s][i].y = result.value[i].y

\* a quad with four different corners scaled about its centre, by
\* different factors that move every corner
C14_Witness ==
  /\ Called("scaleQuad")
  /\ origin = Undefined
  /\ scaleX = RInt(3)
  /\ scaleY = Half
  /\ Cardinality({quad[i] : i \in 1..4}) = 4
  /\ \A i \in 1..4 : result.value[i].x # quad[i].x /\ result.value[i].y # quad[i].y

PositiveStage == RGt(stageWidth, Zero) /\ RGt(stageHeight, Zero)

PositiveContent == RGt(contentWidth, Zero) /\ RGt(contentHeight, Zero)

\* the target rectangle of the call
Target == TargetSize(stageWidth, stageHeight, contentWidth, contentHeight, fit)

\* targetWidth * contentHeight = targetHeight * contentWidth
SameAspect(t) == FMul(t.x, contentHeight) = FMul(t.y, contentWidth)

IsExample ==
  /\ stageWidth = RInt(1000) /\ stageHeight = RInt(500)
  /\ contentWidth = RInt(400) /\ contentHeight = RInt(400)
  /\ fit = "contain" /\ align = "center"

\* C15: with fit = contain and positive stage and content dimensions the
\* target rectangle is no wider and no higher than the stage, as wide or as
\* high as the stage, and of the aspect ratio of the content; stage
\* 1000 x 500 with content 400 x 400, centred, gives
\* [(250,0),(750,0),(750,500),(250,500)].
C15_ContainFitsInside ==
  (Called("computeFullscreenQuad") /\ fit = "contain"
     /\ PositiveStage /\ PositiveContent)
  => /\ RLe(Target.x, stageWidth)
     /\ RLe(Target.y, stageHeight)
     /\ Target.x = stageWidth \/ Target.y = stageHeight
     /\ SameAspect(Target)
     /\ IsExample
          => result.value = <<Point(RInt(250), Zero), Point(RInt(750), Zero),
                              Point(RInt(750), RInt(500)), Point(RInt(250), RInt(500))>>

\* C16: with fit = cover and positive stage and content dimensions the
\* target rectangle is no narrower and no lower than the stage, as wide or
\* as high as the stage, and of the aspect ratio of the content.
C16_CoverCoversStage ==
  (Called("computeFullscreenQuad") /\ fit = "cover"
     /\ PositiveStage /\ PositiveContent)
  => /\ RLe(stageWidth, Target.x)
     /\ RLe(stageHeight, Target.y)
     /\ Target.x = stageWidth \/ Target.y = stageHeight
     /\ SameAspect(Target)

StageRect ==
  <<Point(Zero, Zero), Point(stageWidth, Zero),
    Point(stageWidth, stageHeight), Point(Zero, stageHeight)>>

\* C17: with fit = stretch computeFullscreenQuad returns the stage rectangle
\* [(0,0),(W,0),(W,H),(0,H)], for every content size and every anchor.
C17_StretchIsStage ==
  (Called("computeFullscreenQuad") /\ fit = "stretch")
  => result.value = StageRect

\* a stretch of a content that is neither of the size nor of the aspect of
\* the stage, anchored at the bottom right
C17_Witness ==
  /\ Called("computeFullscreenQuad")
  /\ fit = "stretch"
  /\ align = "bottom-right"
  /\ PositiveStage /\ PositiveContent
  /\ stageWidth # stageHeight
  /\ contentWidth # contentHeight
  /\ RMul(stageWidth, contentHeight) # RMul(stageHeight, contentWidth)

\* the offset the claim gives for the anchor a, for a target tw x th
AnchorOffset(a, tw, th) ==
  CASE a = "center" -> Point(FDiv(FSub(stageWidth, tw), RInt(2)),
                             FDiv(FSub(stageHeight, th), RInt(2)))
    [] a = "top-left" -> Point(Zero, Zero)
    [] a = "top-right" -> Point(FSub(stageWidth, tw), Zero)
    [] a = "bottom-left" -> Point(Zero, FSub(stageHeight, th))
    [] a = "bottom-right" -> Point(FSub(stageWidth, tw), FSub(stageHeight, th))

\* C18: the anchor gives the offset (ox, oy) of the target rectangle tw x th:
\* center ((W - tw)/2, (H - th)/2), top-left (0, 0), top-right (W - tw, 0),
\* bottom-left (0, H - th), bottom-right (W - tw, H - th); the quad returned
\* is [(ox,oy),(ox+tw,oy),(ox+tw,oy+th),(ox,oy+th)].
C18_AnchorGivesOffset ==
  Called("computeFullscreenQuad")
  => LET t == Target
         o == AnchorOffset(align, t.x, t.y)
     IN  result.value = <<Point(o.x, o.y),
                          Point(FAdd(o.x, t.x), o.y),
                          Point(FAdd(o.x, t.x), FAdd(o.y, t.y)),
                          Point(o.x, FAdd(o.y, t.y))>>

\* a target higher than the stage, anchored at the bottom left
C18_Witness ==
  /\ Called("computeFullscreenQuad")
  /\ align = "bottom-left"
  /\ fit = "cover"
  /\ RLt(result.value[1].y, Zero)
  /\ result.value[1].x = Zero
  /\ result.value[3] = Point(stageWidth, stageHeight)

\* the content dimension the claim has the call use
Substituted(content, stage) == IF RLe(content, Zero) THEN stage ELSE content

FinitePoint(pt) == IsFinite(pt.x) /\ IsFinite(pt.y)

\* C19: a non-positive contentWidth is replaced by stageWidth and a
\* non-positive contentHeight by stageHeight, each on its own; with positive
\* stage dimensions no division by zero occurs, whatever the content
\* dimensions; with both content dimensions non-positive, contain and cover
\* return the rectangle of the size of the stage.
C19_NonPositiveContentReplaced ==
  Called("computeFullscreenQuad")
  => /\ result.value
          = computeFullscreenQuad(stageWidth, stageHeight,
                                  Substituted(contentWidth, stageWidth),
                                  Substituted(contentHeight, stageHeight), fit, align)
     /\ PositiveStage => \A i \in 1..4 : FinitePoint(result.value[i])
     /\ (PositiveStage /\ fit # "stretch"
           /\ RLe(contentWidth, Zero) /\ RLe(contentHeight, Zero))
        => /\ Target = Point(stageWidth, stageHeight)
           /\ result.value = StageRect

\* a zero width and a negative height of the content, covered
C19_Witness ==
  /\ Called("computeFullscreenQuad")
  /\ PositiveStage
  /\ stageWidth # stageHeight
  /\ contentWidth = Zero
  /\ RLt(contentHeight, Zero)
  /\ fit = "cover"

----------------------------------------------------------------------------
\* C20: the outcome (value or error) of a core operation depends only on
\* the call's own arguments, so that a call made from any execution context,
\* in any interleaving with other calls, has the outcome of the call made
\* alone.  validateQuad, applyHomography, homographyToCssMatrix3d,
\* getQuadCenter, scaleQuad and computeFullscreenQuad read their arguments
\* and nothing else; computeHomographyRectToQuad also reads NODE_ENV of the
\* context it runs in.  The property: the call with the same arguments in a
\* context with the other environment has the same outcome.
C20_OutcomeDependsOnlyOnArguments ==
  Called("computeHomographyRectToQuad")
  => result = RoundedComputeHomographyRectToQuad(width, height, quad, ~isProd)

----------------------------------------------------------------------------
\* the solver's first step swaps rows: the pivot of column 1 is not in row 1
SolverSwapsRows == PivotSearch(SystemA(width, height, quad), 1, 2, 1) # 1

----------------------------------------------------------------------------
\* the checks of the validator in the order of the claim, each stated on the
\* corners: TRUE where the quad fails the check
FailsCheck(k, q, eps) ==
  CASE k = 1 -> ~NoCoincidentPoints(q)
    [] k = 2 -> ~NoThreeCollinear(q, eps)
    [] k = 3 -> ~AreaBeyond(q, eps)
    [] k = 4 -> ~ClockwiseYDown(q)
    [] k = 5 -> Bowtie(q, eps)

CheckReasons ==
  <<ReasonDuplicate, ReasonCollinear, ReasonArea, ReasonClockwise,
    ReasonSelfIntersecting>>

\* C22: validateQuad reports the reason of the first failing check in the
\* order duplicate points, collinear triple, area too small, not clockwise,
\* self-intersecting: the reason is that of check k exactly when the quad
\* fails check k and passes every check before it.  So a quad with two equal
\* points is reported as duplicate though it has a collinear triple, and a
\* bowtie with non-positive area as area or orientation.
C22_FirstFailingCheckWins ==
  Called("validateQuad")
  => /\ \A k \in 1..5 :
          (~result.ok /\ result.reason = CheckReasons[k])
            <=> /\ FailsCheck(k, quad, epsilon)
                /\ \A j \in 1..(k - 1) : ~FailsCheck(j, quad, epsilon)
     /\ FailsCheck(1, quad, epsilon)
          => FailsCheck(2, quad, epsilon) /\ result = Rejected(ReasonDuplicate)
     /\ (Bowtie(quad, epsilon) /\ ~FailsCheck(1, quad, epsilon)
           /\ ~FailsCheck(2, quad, epsilon) /\ RLe(quadArea(quad), Zero))
          => result.reason \in {ReasonArea, ReasonClockwise}

\* a bowtie of two equal lobes, no three corners of which are collinear: it
\* is reported for its area, not for its crossing edges
C22_Witness ==
  /\ Called("validateQuad")
  /\ Bowtie(quad, epsilon)
  /\ result = Rejected(ReasonArea)

----------------------------------------------------------------------------
\* the system solveLinearSystem is called with
A0 == SystemA(width, height, quad)
b0 == SystemB(quad)

\* the arrays after the step of column i
AfterStepA(A, i) ==
  LET As == Swap(A, i, PivotSearch(A, i, i + 1, i))
  IN  Array([r \in 1..Len(As) |-> RoundedStepRow(As, RoundedScaleRow(As[i], i), i, r)])

AfterStepB(A, b, i) ==
  LET pivotRow == PivotSearch(A, i, i + 1, i)
      As == Swap(A, i, pivotRow)
      bs == Swap(b, i, pivotRow)
  IN  Array([r \in 1..Len(bs) |-> RoundedStepB(As, bs, FDiv(bs[i], As[i][i]), i, r)])

\* no row from i on has a nonzero entry in column i
ZeroColumn(A, i) == \A r \in i..Len(A) : A[r][i].n = 0

\* row r is the first of the rows i..n with the largest magnitude in column i
LargestInColumn(A, i, r) ==
  /\ r \in i..Len(A)
  /\ \A k \in i..Len(A) : RLe(RAbs(A[k][i]), RAbs(A[r][i]))
  /\ \A k \in i..(r - 1) : RLt(RAbs(A[k][i]), RAbs(A[r][i]))

\* from column i on, every step picks the row of the largest magnitude and
\* swaps it, with its entry of b, into row i
RECURSIVE PivotsLargest(_, _, _)
PivotsLargest(A, b, i) ==
  IF i > Len(A) \/ ZeroColumn(A, i) THEN TRUE
  ELSE LET pivotRow == PivotSearch(A, i, i + 1, i)
       IN  /\ LargestInColumn(A, i, pivotRow)
           /\ Swap(A, i, pivotRow)[i] = A[pivotRow]
           /\ Swap(A, i, pivotRow)[pivotRow] = A[i]
           /\ Swap(b, i, pivotRow)[i] = b[pivotRow]
           /\ Swap(b, i, pivotRow)[pivotRow] = b[i]
           /\ PivotsLargest(AfterStepA(A, i), AfterStepB(A, b, i), i + 1)

\* some step from column i on finds the largest magnitude of its column 0
RECURSIVE MeetsZeroColumn(_, _, _)
MeetsZeroColumn(A, b, i) ==
  IF i > Len(A) THEN FALSE
  ELSE IF ZeroColumn(A, i) THEN TRUE
  ELSE MeetsZeroColumn(AfterStepA(A, i), AfterStepB(A, b, i), i + 1)

\* the sum of A[r][c] * x[c] over the columns from c on, computed exactly
RECURSIVE RowTimes(_, _, _)
RowTimes(row, x, c) ==
  IF c > Len(row) THEN Zero
  ELSE RAdd(RMul(row[c], x[c]), RowTimes(row, x, c + 1))

Satisfies(A, x, b) == \A r \in 1..Len(A) : REq(RowTimes(A[r], x, 1), b[r])

\* C23: solveLinearSystem is a Gauss-Jordan elimination with partial
\* pivoting: at column i it picks among the rows from i on the row with the
\* largest |A[r][i]| and swaps it, with its entry of b, into row i; it raises
\* the singular-system error exactly when that largest magnitude is 0; and
\* whenever it returns, the vector x it returns satisfies A0 * x = b0.
C23_SolvesTheSystem ==
  Called("solveLinearSystem")
  => /\ PivotsLargest(A0, b0, 1)
     /\ ~result.ok <=> MeetsZeroColumn(A0, b0, 1)
     /\ ~result.ok => result.error = ErrSingular
     /\ result.ok => Satisfies(A0, result.value, b0)

\* C23, with the equation stated for what a rounded elimination returns: the
\* pivoting and the singular-system error as above; whenever
\* solveLinearSystem returns and no rounding has moved x off the solution the
\* exact elimination finds, x satisfies A0 * x = b0.
C23_SolvesTheSystemWhenExact ==
  Called("solveLinearSystem")
  => /\ PivotsLargest(A0, b0, 1)
     /\ ~result.ok <=> MeetsZeroColumn(A0, b0, 1)
     /\ ~result.ok => result.error = ErrSingular
     /\ (result.ok /\ result = solveLinearSystem(A0, b0))
          => Satisfies(A0, result.value, b0)

\* a solved system with perspective: rows were swapped, the unknowns h20 and
\* h21 are not 0, and no operation of the elimination rounded the solution
C23_Witness ==
  /\ Called("solveLinearSystem")
  /\ result.ok
  /\ result = solveLinearSystem(A0, b0)
  /\ result.value[7].n # 0
  /\ result.value[8].n # 0
  /\ SolverSwapsRows

----------------------------------------------------------------------------
\* the matrix of the solved unknowns, before any check
SolvedH ==
  LET hv == RoundedSolveLinearSystem(A0, b0).value
  IN  <<hv[1], hv[2], hv[3], hv[4], hv[5], hv[6], hv[7], hv[8], RInt(1)>>

\* canonical corner i, re-projected through M, is off its target by more
\* than 1e-6 in x or in y
OffTarget(M, i) ==
  LET mapped == RoundedApplyHomography(M, RectCorners(width, height)[i]).value
  IN  \/ RGt(RAbs(FSub(mapped.x, quad[i].x)), DEFAULT_EPSILON)
      \/ RGt(RAbs(FSub(mapped.y, quad[i].y)), DEFAULT_EPSILON)

ReachesSolve ==
  /\ Called("computeHomographyRectToQuad")
  /\ PositiveDims
  /\ validateQuad(quad, DEFAULT_EPSILON).ok
  /\ RoundedSolveLinearSystem(A0, b0).ok

\* C24: the consistency check after the solve runs exactly when the
\* environment is not production: it re-projects the four canonical corners
\* through the solved H and raises the sanity-check error if any |dx| or
\* |dy| against the target corner exceeds 1e-6; in production the check is
\* skipped and H is returned unchecked.
C24_SanityCheckOutsideProduction ==
  ReachesSolve
  => /\ \A i \in 1..4 : RoundedApplyHomography(SolvedH, RectCorners(width, height)[i]).ok
     /\ isProd => result = Return(SolvedH)
     /\ ~isProd => result = IF \E i \in 1..4 : OffTarget(SolvedH, i)
                            THEN Throw(ErrSanity)
                            ELSE Return(SolvedH)

\* a solved matrix that maps a corner off its target, outside production:
\* the check raises
C24_Witness ==
  /\ ReachesSolve
  /\ ~isProd
  /\ result = Throw(ErrSanity)

----------------------------------------------------------------------------
\* the turn at the corner after corner i: cross(p_i, p_i+1, p_i+2)
Turn(q, i) == cross(q[i], q[Next4(i)], q[Next4(Next4(i))])

PositiveTurns(q) == {i \in 1..4 : RGt(Turn(q, i), Zero)}

Convex(q) == PositiveTurns(q) = 1..4

\* a call on a quad the validator accepts, with positive dimensions
SolvesAccepted ==
  /\ Called("computeHomographyRectToQuad")
  /\ PositiveDims
  /\ validateQuad(quad, DEFAULT_EPSILON).ok

\* points of the source rectangle: its corners, the midpoints of its edges
\* and its centre
RectSamples ==
  {Point(RDiv(RMul(RInt(i), width), RInt(2)), RDiv(RMul(RInt(j), height), RInt(2))) :
     i \in 0..2, j \in 0..2}

PositiveOnRect(M) ==
  \A s \in RectSamples :
    RGt(WPrime(M, s), Zero) /\ applyHomography(M, s).ok

----------------------------------------------------------------------------
\* q is [(x,y), (x2,y), (x2,y2), (x,y2)]
AxisAligned(q) ==
  /\ q[1].y = q[2].y
  /\ q[2].x = q[3].x
  /\ q[3].y = q[4].y
  /\ q[4].x = q[1].x

\* the width and the height of an axis-aligned quad, as its corners give them
ExtentX(q) == RSub(q[2].x, q[1].x)
ExtentY(q) == RSub(q[3].y, q[2].y)

FullscreenCall == Called("computeFullscreenQuad") /\ PositiveStage

----------------------------------------------------------------------------
\* every corner of q lies in [0, W] x [0, H]
InsideStage(q) ==
  \A i \in 1..4 :
    /\ RLe(Zero, q[i].x) /\ RLe(q[i].x, stageWidth)
    /\ RLe(Zero, q[i].y) /\ RLe(q[i].y, stageHeight)

\* the rectangle q reaches from its first corner to its third: it contains
\* [0, W] x [0, H]
ContainsStage(q) ==
  /\ RLe(q[1].x, Zero) /\ RLe(q[1].y, Zero)
  /\ RLe(stageWidth, q[3].x) /\ RLe(stageHeight, q[3].y)

\* C27: for positive stage and content dimensions and every anchor, the quad
\* returned with fit = contain lies inside the stage rectangle
\* [0,W] x [0,H], and the quad returned with fit = cover contains the whole
\* stage rectangle.
C27_ContainInsideCoverOutside ==
  (Called("computeFullscreenQuad") /\ PositiveStage /\ PositiveContent)
  => /\ fit = "contain" => InsideStage(result.value)
     /\ fit = "cover" => ContainsStage(result.value)

----------------------------------------------------------------------------
\* the corner pt scaled about c without rounding
ExactlyScaledPoint(pt, c, sx, sy) ==
  Point(RAdd(c.x, RMul(RSub(pt.x, c.x), sx)), RAdd(c.y, RMul(RSub(pt.y, c.y), sy)))

\* the scaling of the call has rounded no corner
ScaledExactly ==
  \A i \in 1..4 :
    /\ REq(result.value[i].x,
           ExactlyScaledPoint(quad[i], ScaleCenter(quad, origin), scaleX, scaleY).x)
    /\ REq(result.value[i].y,
           ExactlyScaledPoint(quad[i], ScaleCenter(quad, origin), scaleX, scaleY).y)

\* sx * sy
FactorProduct == RMul(scaleX, scaleY)

AreaScaled ==
  REq(quadArea(result.value), RMul(FactorProduct, quadArea(quad)))

----------------------------------------------------------------------------
\* no step of getQuadCenter(q) rounds: the partial sums and the quotients
\* are floats
MeanIsExact(q) ==
  /\ SumsExact(q[1].x, q[2].x, q[3].x, q[4].x)
  /\ SumsExact(q[1].y, q[2].y, q[3].y, q[4].y)
  /\ Representable(ExactMean(q).x)
  /\ Representable(ExactMean(q).y)

\* no step of c + (v - c) * s rounds
StepsAreExact(v, c, s) ==
  /\ Representable(RSub(v, c))
  /\ Representable(RMul(RSub(v, c), s))
  /\ Representable(RAdd(c, RMul(RSub(v, c), s)))

\* no step of the scaling of q about c rounds
ScalingIsExact(q, c, sx, sy) ==
  \A i \in 1..4 : StepsAreExact(q[i].x, c.x, sx) /\ StepsAreExact(q[i].y, c.y, sy)

ExactlyScaled(q, sx, sy, c) ==
  [i \in 1..4 |-> ExactlyScaledPoint(q[i], c, sx, sy)]

\* a scaling about the default origin none of whose steps rounds, nor any of
\* the centroid of the scaled quad
ExactDefaultScaling ==
  /\ Called("scaleQuad")
  /\ origin = Undefined
  /\ MeanIsExact(quad)
  /\ ScalingIsExact(quad, ExactMean(quad), scaleX, scaleY)
  /\ MeanIsExact(ExactlyScaled(quad, scaleX, scaleY, ExactMean(quad)))

\* a second scaling by (c, d), and the scaling by the products in one go,
\* none of whose steps rounds
ExactSecondScaling(c, d) ==
  /\ ScalingIsExact(ExactlyScaled(quad, scaleX, scaleY, ExactMean(quad)),
                    ExactMean(quad), c, d)
  /\ Representable(RMul(scaleX, c))
  /\ Representable(RMul(scaleY, d))
  /\ ScalingIsExact(quad, ExactMean(quad), RMul(scaleX, c), RMul(scaleY, d))

Composes(c, d) ==
  scaleQuad(scaleQuad(quad, scaleX, scaleY, Undefined), c, d, Undefined)
    = scaleQuad(quad, FMul(scaleX, c), FMul(scaleY, d), Undefined)

\* C29: scaling about the default origin keeps the centroid fixed,
\* getQuadCenter(scaleQuad(q, sx, sy)) = getQuadCenter(q) for every quad and
\* all factors, and successive default-origin scalings compose:
\* scaleQuad(scaleQuad(q, a, b), c, d) = scaleQuad(q, a * c, b * d).
C29_DefaultScalingKeepsCentroid ==
  (Called("scaleQuad") /\ origin = Undefined)
  => /\ getQuadCenter(result.value) = getQuadCenter(quad)
     /\ \A c \in SignedScales : \A d \in SignedScales : Composes(c, d)

\* C29, where no step rounds: the returned quad is the exact scaling about
\* the mean of the corners, its centroid is the centroid of the original, and
\* a second scaling none of whose steps rounds gives what the scaling by the
\* products of the factors gives.
C29_ExactDefaultScalingKeepsCentroid ==
  ExactDefaultScaling
  => /\ \A i \in 1..4 :
          result.value[i] = ExactlyScaledPoint(quad[i], ExactMean(quad), scaleX, scaleY)
     /\ getQuadCenter(quad) = ExactMean(quad)
     /\ getQuadCenter(result.value) = getQuadCenter(quad)
     /\ \A c \in SignedScales : \A d \in SignedScales :
          ExactSecondScaling(c, d) => Composes(c, d)

\* a quad of non-zero area scaled by different factors on the two axes, and
\* a second scaling that changes both again
C29_Witness ==
  /\ ExactDefaultScaling
  /\ Cardinality({quad[i] : i \in 1..4}) >= 3
  /\ quadArea(quad) # Zero
  /\ scaleX = RInt(3)
  /\ scaleY = Half
  /\ ExactSecondScaling(Half, RInt(3))

----------------------------------------------------------------------------
\* p0 + p2 = p1 + p3
Parallelogram(q) ==
  /\ REq(RAdd(q[1].x, q[3].x), RAdd(q[2].x, q[4].x))
  /\ REq(RAdd(q[1].y, q[3].y), RAdd(q[2].y, q[4].y))

\* a call on a parallelogram the validator accepts, with positive dimensions
SolvesParallelogram ==
  /\ Called("computeHomographyRectToQuad")
  /\ PositiveDims
  /\ validateQuad(quad, DEFAULT_EPSILON).ok
  /\ Parallelogram(quad)

\* the bottom row of M is (0, 0, 1)
AffineMatrix(M) == M[7] = Zero /\ M[8] = Zero /\ M[9] = RInt(1)

IdentityMatrix3x3 ==
  <<RInt(1), Zero, Zero, Zero, RInt(1), Zero, Zero, Zero, RInt(1)>>

\* C30: when the target quad is a parallelogram (p0 + p2 = p1 + p3) the
\* validator accepts, the solved homography is affine, its bottom row being
\* exactly (0, 0, 1); for the source rectangle itself,
\* quad = [(0,0),(W,0),(W,H),(0,H)], computeHomographyRectToQuad returns the
\* identity matrix.
C30_ParallelogramGivesAffine ==
  (SolvesParallelogram /\ result.ok)
  => /\ AffineMatrix(result.value)
     /\ quad = RectCorners(width, height) => result.value = IdentityMatrix3x3

\* C30, with the rounding of the elimination: the solution of the system is
\* affine, and so is the returned matrix when rounding has not moved it off
\* that solution; the entry h22 of every returned matrix is 1; and for the
\* source rectangle itself the call returns the identity matrix, in either
\* build.
C30_ParallelogramGivesAffineWhenExact ==
  SolvesParallelogram
  => /\ computeHomographyRectToQuad(width, height, quad, isProd).ok
     /\ AffineMatrix(computeHomographyRectToQuad(width, height, quad, isProd).value)
     /\ result = computeHomographyRectToQuad(width, height, quad, isProd)
          => AffineMatrix(result.value)
     /\ result.ok => result.value[9] = RInt(1)
     /\ quad = RectCorners(width, height) => result = Return(IdentityMatrix3x3)

\* a sheared parallelogram, solved without a rounding that shows in the
\* result
C30_Witness ==
  /\ SolvesParallelogram
  /\ quad[4].x # quad[1].x
  /\ result = computeHomographyRectToQuad(width, height, quad, isProd)
  /\ AffineMatrix(result.value)

====
